---- MODULE Spec2Model ----
(***************************************************************************)
(* State-machine model of generate_image.py: the command-line entry point  *)
(* (main), the three remote operations (generate_image, upscale_image,     *)
(* upscale_bloom) with their submit / poll / download / save / record      *)
(* steps, and the two provenance files (generation_log.jsonl and           *)
(* .last_image.json).  One behaviour is a sequence of invocations of the   *)
(* tool against the same skill directory.                                  *)
(*                                                                         *)
(* Seven specifications share the definitions:                             *)
(*   Spec        the invocations end to end on "last" or a URL (direct     *)
(*               engine selection);                                        *)
(*   LocalSpec   the invocations end to end on a local path;               *)
(*   PresetSpec  the upscale dispatch of main over every preset, engine    *)
(*               option and engine-specific option, up to the submission;  *)
(*   UploadSpec  resolve_image_url and the FTP session of upload_to_ftp,   *)
(*               command by command;                                       *)
(*   OutputSpec  the operation functions from the download on, over every  *)
(*               content type, URL suffix, output format, prompt and       *)
(*               clock reading;                                            *)
(*   DimensionSpec  the two upscale functions up to the submission, over   *)
(*               every scale factor and source dimension;                  *)
(*   SlugSpec    slugify over every text of a small alphabet and every     *)
(*               max_length.                                               *)
(* Text whose parts matter (paths, URLs, file names) is a sequence of      *)
(* tokens, "/" being a token of its own.                                   *)
(***************************************************************************)
EXTENDS Integers, Sequences, FiniteSets, TLC

VARIABLES
    pc,         \* position of the running process: "idle", "submit", "poll",
                \* "download", "save", "log", "latest", "finish", "exited";
                \* in an upload: "resolve", "connect", "login", "cwd",
                \* "mkdirs", "store", "quit", "resolved"
    args,       \* parsed command line of the current invocation
    argv,       \* the upscale options as typed on the command line
    kwargs,     \* keyword arguments main passes to the operation function
    payload,    \* JSON body of the submission request
    API_KEY,    \* TRUE iff KREA_API_KEY is set in the environment
    kind,       \* operation function being run: "generate", "topaz", "bloom"
    src,        \* image URL argument of the operation ("none" for plain generation)
    i,          \* index of the variation loop of main
    response,   \* the submission response (status code and job_id)
    job_id,     \* job identifier taken from the response (0: none)
    elapsed,    \* seconds of accumulated sleeping in the poll loop
    fetch_code, \* status code of the last status-fetch response (0: no fetch yet)
    job_data,   \* body of the last status response that was read
    urls,       \* job_data["result"]["urls"] as read after the loop
    image_url,  \* urls[0]
    img_response,\* status code of the download response (0: no download yet)
    output_file,\* path of the saved file of the current operation
    err,        \* the error that ended the invocation
    exit_code,  \* process exit code (-1 while running)
    log,        \* lines of generation_log.jsonl
    last,       \* content of .last_image.json: <<>> when the file does not exist
    files,      \* paths written under images/
    sent,       \* kinds of network request sent since the invocation started
                \* or, once an operation runs, by the current operation
    appended,   \* history: number of log lines the invocation has appended
    last_ok_url,\* history: result URL of the last operation that returned
                \* successfully ("none": no operation has)
    environ,    \* the FTP_* variables of the environment / .env file
    fs,         \* paths that exist in the local file system
    path_arg,   \* argument of resolve_image_url (its path)
    ftp,        \* locals of upload_to_ftp and the state of its FTP session
    server,     \* the FTP server: its directories and the files stored
    result,     \* value returned by resolve_image_url (<<>>: none)
    content_type,\* Content-Type header the artifact host answers a download
                \* with (<<>>: the header is absent)
    now,        \* reading of datetime.now(): date and time of day
    text_arg,   \* argument of a call of slugify (its text)
    max_length, \* argument of a call of slugify
    slug        \* value returned by that call (<<>>: not called yet)

vars == <<pc, args, API_KEY, kind, src, i, response, job_id, elapsed,
          fetch_code, job_data, urls, image_url, output_file, err, exit_code,
          log, last, files, sent, last_ok_url, argv, kwargs, payload,
          environ, fs, path_arg, ftp, server, result,
          content_type, now, text_arg, max_length, slug, img_response, appended>>

(***************************************************************************)
(* Bounds of the exploration.                                              *)
(***************************************************************************)
MaxLog == 2     \* records the log may hold before no further invocation starts
MaxNum == 2     \* largest --num explored
MaxText == 4    \* longest text handed to slugify
MaxCut == 6     \* largest max_length handed to slugify

(***************************************************************************)
(* Inputs drawn from small sets.                                           *)
(***************************************************************************)
ArgUrl == "https://arg"                       \* a URL given on the command line
ResultUrls == {"https://r1", "https://r2"}    \* artifact URLs the service returns
UrlLists == {<<>>, <<"https://r1">>, <<"https://r2", "https://r1">>}
SubmitCodes == {200, 201, 401, 402, 500}
PollCodes == {200, 204, 500}
DownloadCodes == {200, 206, 404}
JobIds == {0, 1}                              \* 0: the response holds no job_id
TerminalStatuses == {"completed", "failed", "cancelled"}
Kinds == {"generate", "topaz", "bloom"}
Noon == [date |-> "2026-01-15", time |-> "12-00-00"]   \* a reading of the clock

(***************************************************************************)
(* Program constants.                                                      *)
(***************************************************************************)
GenerateMaxWait == 120
GeneratePollInterval == 2
TopazMaxWait == 120
TopazPollInterval == 2
BloomMaxWait == 300
BloomPollInterval == 5

max_wait(k) ==
    CASE k = "generate" -> GenerateMaxWait
      [] k = "topaz" -> TopazMaxWait
      [] k = "bloom" -> BloomMaxWait

poll_interval(k) ==
    CASE k = "generate" -> GeneratePollInterval
      [] k = "topaz" -> TopazPollInterval
      [] k = "bloom" -> BloomPollInterval

(***************************************************************************)
(* Errors.  Every failure of the code is a RuntimeError / ValueError with  *)
(* a message; kind names the message, payload what is formatted into it.   *)
(***************************************************************************)
NoPayload == [tag |-> "none"]
HttpPayload(code) == [tag |-> "http", code |-> code]
JobData(st, us) == [tag |-> "job_data", status |-> st, urls |-> us]
WaitPayload(k) == [tag |-> "seconds", seconds |-> max_wait(k)]

NoErr == [kind |-> "none", payload |-> NoPayload]
Error(k, p) == [kind |-> k, payload |-> p]

\* bodies of status responses: a result is present on completed jobs (its
\* URL list may be empty), and may be present on a failed one
StatusResponses ==
    {JobData("processing", <<>>), JobData("failed", <<>>),
     JobData("failed", <<"https://r1">>), JobData("cancelled", <<>>)}
    \cup {JobData("completed", us) : us \in UrlLists}

NoJobData == JobData("none", <<>>)
NoResponse == [code |-> 0, job_id |-> 0]
NoPath == [tag |-> "none"]

(***************************************************************************)
(* Serialisation of a record: one compact line in the log, an indented     *)
(* object in the "last image" file; json.loads reads either back.          *)
(***************************************************************************)
Dumps(entry) == [fmt |-> "compact", obj |-> entry]
DumpsIndent(entry) == [fmt |-> "indent2", obj |-> entry]
Loads(text) == text.obj

\* get_last_image_info: <<>> stands for None
get_last_image_info ==
    IF last # <<>> THEN <<Loads(last[1])>> ELSE <<>>

\* variant: the missing "last image" file is not checked for
NoPriorUnchecked(target, last_info) == FALSE

\* main: "last" was asked for and there is no last image
NoPrior(target, last_info) == target = "last" /\ last_info = <<>>

\* main: the source URL of an edit / upscale
SourceUrl(target, last_info) ==
    CASE target = "none" -> "none"
      [] target = "last" -> IF last_info # <<>> THEN last_info[1].krea_url ELSE "none"
      [] OTHER -> target

(***************************************************************************)
(* The log entry each operation builds.                                    *)
(***************************************************************************)
OpTag(k) ==
    CASE k = "generate" -> kwargs.model
      [] k = "topaz" -> "upscale"
      [] k = "bloom" -> "bloom"

\* variant: the source URL is recorded where the result URL belongs
LogEntryWrongUrl(k, path, url, source) ==
    CASE k = "generate" ->
            [local_path |-> path, krea_url |-> source, prompt |-> kwargs.prompt,
             model |-> kwargs.model, aspect_ratio |-> kwargs.aspect_ratio,
             is_edit |-> (source # "none")]
      [] k = "topaz" ->
            [local_path |-> path, krea_url |-> source,
             operation |-> "upscale_topaz", engine |-> "topaz"]
      [] k = "bloom" ->
            [local_path |-> path, krea_url |-> source,
             operation |-> "upscale_bloom", engine |-> "bloom"]

LogEntry(k, path, url, source) ==
    CASE k = "generate" ->
            [local_path |-> path, krea_url |-> url, prompt |-> kwargs.prompt,
             model |-> kwargs.model, aspect_ratio |-> kwargs.aspect_ratio,
             is_edit |-> (source # "none")]
      [] k = "topaz" ->
            [local_path |-> path, krea_url |-> url,
             operation |-> "upscale_topaz", engine |-> "topaz"]
      [] k = "bloom" ->
            [local_path |-> path, krea_url |-> url,
             operation |-> "upscale_bloom", engine |-> "bloom"]

(***************************************************************************)
(* Text operations on token sequences.                                     *)
(***************************************************************************)
RECURSIVE rstrip(_, _)
rstrip(s, c) ==
    IF s # <<>> /\ s[Len(s)] = c THEN rstrip(SubSeq(s, 1, Len(s) - 1), c) ELSE s

RECURSIVE lstrip(_, _)
lstrip(s, c) ==
    IF s # <<>> /\ s[1] = c THEN lstrip(Tail(s), c) ELSE s

strip(s, c) == lstrip(rstrip(s, c), c)

\* position of the first c in s (0: none)
find(s, c) ==
    IF \E k \in 1..Len(s) : s[k] = c
       THEN CHOOSE k \in 1..Len(s) : s[k] = c /\ \A j \in 1..(k - 1) : s[j] # c
       ELSE 0

\* s.split(c): the pieces of s between the occurrences of c
RECURSIVE split(_, _)
split(s, c) ==
    IF find(s, c) = 0
       THEN <<s>>
       ELSE <<SubSeq(s, 1, find(s, c) - 1)>>
               \o split(SubSeq(s, find(s, c) + 1, Len(s)), c)

\* Path(p).suffix: the last token when it is an extension and not the whole name
ExtTokens == {".jpg", ".png"}
suffix(p) ==
    IF Len(p) > 1 /\ p[Len(p)] \in ExtTokens /\ p[Len(p) - 1] # "/"
       THEN <<p[Len(p)]>>
       ELSE <<>>

\* variant: only https:// counts as a URL
is_urlHttpsOnly(p) == p # <<>> /\ p[1] = "https://"

is_url(p) == p # <<>> /\ p[1] \in {"http://", "https://"}

\* variant: the existence of the file is not looked at
is_local_fileAnyPath(p, existing) == ~is_url(p)

is_local_file(p, existing) == IF is_url(p) THEN FALSE ELSE p \in existing

(***************************************************************************)
(* slugify.  A text is a sequence of one-character strings.                *)
(***************************************************************************)
LowerAlnum ==
    {"a", "b", "c", "d", "e", "f", "g", "h", "i", "j", "k", "l", "m", "n", "o",
     "p", "q", "r", "s", "t", "u", "v", "w", "x", "y", "z",
     "0", "1", "2", "3", "4", "5", "6", "7", "8", "9"}
Whitespace == {" ", "\t", "\n"}          \* the class \s
DefaultMaxLength == 50
Fallback == <<"i", "m", "a", "g", "e">>

\* str.lower() on the characters the model uses
lower(s) ==
    [k \in 1..Len(s) |->
        CASE s[k] = "A" -> "a"
          [] s[k] = "B" -> "b"
          [] OTHER -> s[k]]

\* str.strip(chars) and str.strip() for a set of characters
RECURSIVE lstripAny(_, _)
lstripAny(s, cs) ==
    IF s # <<>> /\ s[1] \in cs THEN lstripAny(Tail(s), cs) ELSE s

RECURSIVE rstripAny(_, _)
rstripAny(s, cs) ==
    IF s # <<>> /\ s[Len(s)] \in cs
       THEN rstripAny(SubSeq(s, 1, Len(s) - 1), cs) ELSE s

stripAny(s, cs) == lstripAny(rstripAny(s, cs), cs)

\* re.sub(r'[^...]', '', s): the characters outside kept are removed
sub_remove(s, kept) == SelectSeq(s, LAMBDA c : c \in kept)

\* re.sub(r'[...]+', r, s): every maximal run of characters of cs becomes r
RECURSIVE sub_runs(_, _, _)
sub_runs(s, cs, r) ==
    IF s = <<>> THEN <<>>
    ELSE IF s[1] \in cs
            THEN <<r>> \o sub_runs(lstripAny(Tail(s), cs), cs, r)
            ELSE <<s[1]>> \o sub_runs(Tail(s), cs, r)

\* s.rsplit(c, 1)[0]: what stands before the last c, all of s without one
rsplit_head(s, c) ==
    IF \E k \in 1..Len(s) : s[k] = c
       THEN SubSeq(s, 1, (CHOOSE k \in 1..Len(s) :
                            /\ s[k] = c
                            /\ \A j \in (k + 1)..Len(s) : s[j] # c) - 1)
       ELSE s

slugify(t, m) ==
    LET lowered == stripAny(lower(t), Whitespace)
        kept == sub_remove(lowered, LowerAlnum \cup Whitespace \cup {"-"})
        hyphened == sub_runs(kept, Whitespace \cup {"_"}, "-")
        single == sub_runs(hyphened, {"-"}, "-")
        trimmed == stripAny(single, {"-"})
        cut == IF Len(trimmed) > m
                  THEN rsplit_head(SubSeq(trimmed, 1, m), "-")
                  ELSE trimmed
    IN  IF cut = <<>> THEN Fallback ELSE cut

(***************************************************************************)
(* The strings of the end-to-end specification and their tokens.           *)
(***************************************************************************)
(***************************************************************************)
(* The extension of the saved file.  A content type is a sequence of       *)
(* tokens ("image/png" is <<"image/", "png">>), an extension the dot and   *)
(* the format.                                                             *)
(***************************************************************************)
PngUrl == "https://r/a.png"       \* artifact URLs with a suffix
WebpUrl == "https://r/b.webp"
ContentTypes ==
    {<<>>, <<"image/", "png">>, <<"image/", "webp">>, <<"image/", "jpeg">>}

LocalFile == "photo.jpg"        \* a path given on the command line that exists
MissingFile == "nofile.png"     \* a path given on the command line that does not
HexIds == {"3f2a9c0d1b7e", "a41c07e29bd5"}    \* values of uuid4().hex[:12]
UploadedUrl == "https://cdn/3f2a9c0d1b7e.jpg"

Tokens(text) ==
    CASE text = ArgUrl -> <<"https://", "arg">>
      [] text = LocalFile -> <<"photo", ".jpg">>
      [] text = MissingFile -> <<"nofile", ".png">>
      [] text = UploadedUrl -> <<"https://", "cdn", "/", "3f2a9c0d1b7e", ".jpg">>
      [] text = PngUrl -> <<"https://", "r", "/", "a", ".png">>
      [] text = WebpUrl -> <<"https://", "r", "/", "b", ".webp">>
      [] OTHER -> <<text>>

\* word in content_type
contains(tokens, word) == \E k \in 1..Len(tokens) : tokens[k] = word

\* url.endswith(sfx)
endswith(url, sfx) == Tokens(url)[Len(Tokens(url))] = sfx

\* generate_image: the extension from the content type or the URL
GenerateExt(ctype, url) ==
    IF contains(ctype, "png") \/ endswith(url, ".png") THEN <<".", "png">>
    ELSE IF contains(ctype, "webp") \/ endswith(url, ".webp") THEN <<".", "webp">>
    ELSE <<".", "jpg">>

\* upscale_image, upscale_bloom: the extension from output_format
UpscaleExt(output_format) ==
    IF output_format # "jpg" THEN <<".", output_format>> ELSE <<".", "jpg">>

Text(tokens) ==
    IF \E t \in {ArgUrl, LocalFile, MissingFile, UploadedUrl} : Tokens(t) = tokens
       THEN CHOOSE t \in {ArgUrl, LocalFile, MissingFile, UploadedUrl} : Tokens(t) = tokens
       ELSE "other"

(***************************************************************************)
(* The environment (.env): a variable is set to a value or unset.          *)
(* os.getenv gives the default for an unset one; None is read only for its *)
(* truth value and is written <<>> like the empty string.                  *)
(***************************************************************************)
Unset == [set |-> FALSE, val |-> <<>>]
Val(v) == [set |-> TRUE, val |-> v]
getenv(name, default) == IF environ[name].set THEN environ[name].val ELSE default

FTP_HOST == getenv("FTP_HOST", <<>>)
FTP_USER == getenv("FTP_USER", <<>>)
FTP_PASS == getenv("FTP_PASS", <<>>)
FTP_REMOTE_PATH == getenv("FTP_REMOTE_PATH", <<"/">>)
FTP_PUBLIC_URL == getenv("FTP_PUBLIC_URL", <<>>)

\* an environment with every variable set
ConfiguredEnv ==
    [FTP_HOST |-> Val(<<"ftp.host">>), FTP_USER |-> Val(<<"user">>),
     FTP_PASS |-> Val(<<"secret">>), FTP_REMOTE_PATH |-> Val(<<"/", "img">>),
     FTP_PUBLIC_URL |-> Val(<<"https://", "cdn">>)]

Environments ==
    [FTP_HOST : {Unset, Val(<<"ftp.host">>)},
     FTP_USER : {Unset, Val(<<"user">>)},
     FTP_PASS : {Unset, Val(<<>>), Val(<<"secret">>)},
     FTP_REMOTE_PATH : {Unset, Val(<<"/">>), Val(<<"/", "img">>),
                        Val(<<"/", "img", "/">>), Val(<<"/", "a", "/", "b">>)},
     FTP_PUBLIC_URL : {Unset, Val(<<"https://", "cdn">>),
                       Val(<<"https://", "cdn", "/">>)}]

\* arguments of resolve_image_url
PathInputs ==
    {<<"https://", "cdn", "/", "a", ".png">>, <<"http://", "h">>,
     <<"photo", ".jpg">>, <<"scans", "/", "photo">>, <<"nofile", ".png">>}

\* local file systems: nothing exists, or everything but nofile.png does
FileSystems == {{}, PathInputs \ {<<"nofile", ".png">>}}

\* FTP servers at login: the directories that exist, whether MKD is allowed
Servers ==
    [dirs : {{<<"/">>}, {<<"/">>, <<"/", "img">>}, {<<"/">>, <<"/", "a">>},
             {<<"/">>, <<"/", "a">>, <<"/", "a", "/", "b">>}},
     writable : BOOLEAN,
     files : {{}}]

NoFtp == [unique_name |-> <<>>, cwd |-> <<>>, k |-> 0, current |-> <<>>]
NoServer == [dirs |-> {<<"/">>}, writable |-> FALSE, files |-> {}]

(***************************************************************************)
(* Upscale presets and options.  Fractions are written in tenths           *)
(* (sharpen 0.4 is 4).                                                     *)
(***************************************************************************)
UPSCALE_PRESETS ==
    [portrait |->
        [engine |-> "topaz",
         topaz |-> [model |-> "High Fidelity V2", sharpen |-> 4, denoise |-> 3,
                    fix_compression |-> 4, face_enhancement |-> TRUE],
         bloom |-> [creativity |-> 2, face_preservation |-> TRUE,
                    color_preservation |-> TRUE]],
     photo |->
        [engine |-> "topaz",
         topaz |-> [model |-> "High Fidelity V2", sharpen |-> 5, denoise |-> 3,
                    fix_compression |-> 5, face_enhancement |-> FALSE],
         bloom |-> [creativity |-> 2, face_preservation |-> FALSE,
                    color_preservation |-> TRUE]],
     artwork |->
        [engine |-> "topaz",
         topaz |-> [model |-> "Standard V2", sharpen |-> 6, denoise |-> 2,
                    fix_compression |-> 3, face_enhancement |-> FALSE],
         bloom |-> [creativity |-> 4, face_preservation |-> FALSE,
                    color_preservation |-> FALSE]],
     cgi |->
        [engine |-> "topaz",
         topaz |-> [model |-> "CGI", sharpen |-> 5, denoise |-> 1,
                    fix_compression |-> 2, face_enhancement |-> FALSE],
         bloom |-> [creativity |-> 3, face_preservation |-> FALSE,
                    color_preservation |-> TRUE]],
     lowres |->
        [engine |-> "bloom",
         topaz |-> [model |-> "Low Resolution V2", sharpen |-> 3, denoise |-> 7,
                    fix_compression |-> 8, face_enhancement |-> FALSE],
         bloom |-> [creativity |-> 5, face_preservation |-> FALSE,
                    color_preservation |-> FALSE]],
     text |->
        [engine |-> "topaz",
         topaz |-> [model |-> "Text Refine", sharpen |-> 7, denoise |-> 2,
                    fix_compression |-> 5, face_enhancement |-> FALSE],
         bloom |-> [creativity |-> 1, face_preservation |-> FALSE,
                    color_preservation |-> TRUE]],
     creative |->
        [engine |-> "bloom",
         topaz |-> [model |-> "Standard V2", sharpen |-> 5, denoise |-> 3,
                    fix_compression |-> 5, face_enhancement |-> FALSE],
         bloom |-> [creativity |-> 6, face_preservation |-> FALSE,
                    color_preservation |-> FALSE]]]

PresetNames == DOMAIN UPSCALE_PRESETS

\* engine-specific options as typed: none of them, or all of them ("absent"
\* and -1: the option is not on the command line; a flag is then FALSE)
NoOptions ==
    [upscale_model |-> "absent", sharpen |-> -1, denoise |-> -1,
     fix_compression |-> -1, face_enhancement |-> FALSE, creativity |-> -1,
     face_preservation |-> FALSE, color_preservation |-> FALSE,
     upscale_prompt |-> ""]

AllOptions ==
    [upscale_model |-> "CGI", sharpen |-> 9, denoise |-> 9,
     fix_compression |-> 9, face_enhancement |-> TRUE, creativity |-> 9,
     face_preservation |-> TRUE, color_preservation |-> TRUE,
     upscale_prompt |-> "more detail"]

BloomOptions ==
    [NoOptions EXCEPT !.creativity = 8, !.color_preservation = TRUE,
                      !.upscale_prompt = "more detail"]

\* the upscale part of a command line
CommandLine(engine, preset, scale, o) ==
    [engine |-> engine, preset |-> preset, scale |-> scale, options |-> o]

\* parser.parse_args(): the defaults stand in for what is not typed
parse_args(line) ==
    [engine |-> IF line.engine = "absent" THEN "topaz" ELSE line.engine,
     preset |-> line.preset,
     scale |-> IF line.scale = -1 THEN 2 ELSE line.scale,
     upscale_model |-> IF line.options.upscale_model = "absent"
                          THEN "Standard V2" ELSE line.options.upscale_model,
     sharpen |-> IF line.options.sharpen = -1 THEN 5 ELSE line.options.sharpen,
     denoise |-> IF line.options.denoise = -1 THEN 3 ELSE line.options.denoise,
     fix_compression |-> IF line.options.fix_compression = -1
                            THEN 5 ELSE line.options.fix_compression,
     face_enhancement |-> line.options.face_enhancement,
     creativity |-> IF line.options.creativity = -1
                       THEN 3 ELSE line.options.creativity,
     face_preservation |-> line.options.face_preservation,
     color_preservation |-> line.options.color_preservation,
     upscale_prompt |-> line.options.upscale_prompt]

\* main, preset mode: the engine
PresetEngine(ns) ==
    IF ns.engine # "topaz" THEN ns.engine ELSE UPSCALE_PRESETS[ns.preset].engine

\* variant: in preset mode face enhancement follows the --face-enhancement flag
PresetTopazKwargsFlag(ns, settings) ==
    [scale_factor |-> ns.scale, model |-> settings.model,
     sharpen |-> settings.sharpen, denoise |-> settings.denoise,
     fix_compression |-> settings.fix_compression,
     face_enhancement |-> ns.face_enhancement]

\* main, preset mode: the settings handed to upscale_image
PresetTopazKwargs(ns, settings) ==
    [scale_factor |-> ns.scale, model |-> settings.model,
     sharpen |-> settings.sharpen, denoise |-> settings.denoise,
     fix_compression |-> settings.fix_compression,
     face_enhancement |-> settings.face_enhancement]

\* main, preset mode: the settings handed to upscale_bloom (prompt keeps its
\* default)
PresetBloomKwargs(ns, settings) ==
    [scale_factor |-> ns.scale, creativity |-> settings.creativity,
     face_preservation |-> settings.face_preservation,
     color_preservation |-> settings.color_preservation, prompt |-> ""]

\* main: the operation function called for an upscale and its keyword
\* arguments
UpscaleCall(ns) ==
    CASE ns.preset # "absent" /\ PresetEngine(ns) = "topaz" ->
            [fn |-> "topaz",
             kwargs |-> PresetTopazKwargs(ns, UPSCALE_PRESETS[ns.preset].topaz)]
      [] ns.preset # "absent" /\ PresetEngine(ns) # "topaz" ->
            [fn |-> "bloom",
             kwargs |-> PresetBloomKwargs(ns, UPSCALE_PRESETS[ns.preset].bloom)]
      [] ns.preset = "absent" /\ ns.engine = "bloom" ->
            [fn |-> "bloom",
             kwargs |-> [scale_factor |-> ns.scale, creativity |-> ns.creativity,
                         face_preservation |-> ns.face_preservation,
                         color_preservation |-> ns.color_preservation,
                         prompt |-> ns.upscale_prompt]]
      [] OTHER ->
            [fn |-> "topaz",
             kwargs |-> [scale_factor |-> ns.scale, model |-> ns.upscale_model,
                         sharpen |-> ns.sharpen, denoise |-> ns.denoise,
                         fix_compression |-> ns.fix_compression,
                         face_enhancement |-> ns.face_enhancement]]

\* the value of a parameter: the keyword argument, its default without one
Param(kw, name, default) == IF name \in DOMAIN kw THEN kw[name] ELSE default

\* the prompt "A red bicycle"
RedBicycle == <<"A", " ", "r", "e", "d", " ", "b", "i", "c", "y", "c", "l", "e">>

\* main: args.aspect_ratio, or the one of the last image in an edit of it
\* ("absent": the option is not typed)
AspectRatio(typed, target, last_info) ==
    IF typed # "absent" THEN typed
    ELSE IF target = "last" /\ last_info # <<>>
            /\ "aspect_ratio" \in DOMAIN last_info[1]
         THEN last_info[1].aspect_ratio
         ELSE "1:1"

\* arguments of generate_image (strength in tenths)
GenerateArgs(text, model, ratio) ==
    [prompt |-> text, model |-> model, aspect_ratio |-> ratio,
     resolution |-> "1K", edit_strength |-> 8]

GenerateKwargs == GenerateArgs(RedBicycle, "nano", "1:1")
NoKwargs == [tag |-> "none"]
NoPayloadSent == [tag |-> "none"]
NoCommandLine == CommandLine("absent", "absent", -1, NoOptions)

(***************************************************************************)
(* The request bodies.                                                     *)
(***************************************************************************)
SourceSide == 1024      \* width and height assumed for the source image
TopazMaxSide == 22000
BloomMaxSide == 10000

Min(a, b) == IF a < b THEN a ELSE b

\* variant: the target dimensions are not capped
TopazPayloadUncapped(image, kw) ==
    [image_url |-> image,
     width |-> Param(kw, "source_width", SourceSide) * kw.scale_factor,
     height |-> Param(kw, "source_height", SourceSide) * kw.scale_factor,
     model |-> kw.model, upscaling_activated |-> TRUE,
     image_scaling_factor |-> kw.scale_factor,
     output_format |-> Param(kw, "output_format", "png"),
     sharpen |-> kw.sharpen, denoise |-> kw.denoise,
     fix_compression |-> kw.fix_compression,
     face_enhancement |-> kw.face_enhancement]
    @@ (IF kw.face_enhancement
           THEN [face_enhancement_creativity |-> 5, face_enhancement_strength |-> 5]
           ELSE <<>>)

TopazPayload(image, kw) ==
    [image_url |-> image,
     width |-> Min(Param(kw, "source_width", SourceSide) * kw.scale_factor,
                   TopazMaxSide),
     height |-> Min(Param(kw, "source_height", SourceSide) * kw.scale_factor,
                    TopazMaxSide),
     model |-> kw.model, upscaling_activated |-> TRUE,
     image_scaling_factor |-> kw.scale_factor,
     output_format |-> Param(kw, "output_format", "png"),
     sharpen |-> kw.sharpen, denoise |-> kw.denoise,
     fix_compression |-> kw.fix_compression,
     face_enhancement |-> kw.face_enhancement]
    @@ (IF kw.face_enhancement
           THEN [face_enhancement_creativity |-> 5, face_enhancement_strength |-> 5]
           ELSE <<>>)

BloomPayload(image, kw) ==
    [image_url |-> image,
     width |-> Min(Param(kw, "source_width", SourceSide) * kw.scale_factor,
                   BloomMaxSide),
     height |-> Min(Param(kw, "source_height", SourceSide) * kw.scale_factor,
                    BloomMaxSide),
     model |-> "Reimagine", creativity |-> kw.creativity,
     face_preservation |-> kw.face_preservation,
     color_preservation |-> kw.color_preservation,
     upscaling_activated |-> TRUE,
     image_scaling_factor |-> kw.scale_factor,
     output_format |-> Param(kw, "output_format", "png")]
    @@ (IF kw.prompt # "" THEN [prompt |-> kw.prompt] ELSE <<>>)

GeneratePayload(image, kw) ==
    [prompt |-> kw.prompt, aspectRatio |-> kw.aspect_ratio, numImages |-> 1]
    @@ (IF kw.model = "pro" THEN [resolution |-> kw.resolution] ELSE <<>>)
    @@ (IF image # "none"
           THEN [styleImages |-> <<[url |-> image, strength |-> kw.edit_strength]>>]
           ELSE <<>>)

Payload(k, image, kw) ==
    CASE k = "generate" -> GeneratePayload(image, kw)
      [] k = "topaz" -> TopazPayload(image, kw)
      [] k = "bloom" -> BloomPayload(image, kw)

(***************************************************************************)
(* The path of the saved file: the folder of the date and the file name    *)
(* {time}-{model}-{slug}{ext} of a generation, {time}-upscale-{N}x{ext}    *)
(* and {time}-bloom-{N}x{ext} of an upscale.                               *)
(***************************************************************************)
Ext(k) ==
    IF k = "generate"
       THEN GenerateExt(content_type, image_url)
       ELSE UpscaleExt(Param(kwargs, "output_format", "png"))

\* variant: the file name of a generation carries no slug
OutputPathNoSlug(k) ==
    [date_folder |-> now.date,
     filename |->
        <<now.time, "-", OpTag(k), "-">>
        \o (IF k = "generate" THEN <<>> ELSE <<ToString(kwargs.scale_factor), "x">>)
        \o Ext(k)]

OutputPath(k) ==
    [date_folder |-> now.date,
     filename |->
        <<now.time, "-", OpTag(k), "-">>
        \o (IF k = "generate"
               THEN slugify(kwargs.prompt, DefaultMaxLength)
               ELSE <<ToString(kwargs.scale_factor), "x">>)
        \o Ext(k)]

(***************************************************************************)
(* upload_to_ftp: configuration check, remote name, public URL.            *)
(***************************************************************************)
\* variant: the password is not among the values checked
ConfiguredNoPass ==
    FTP_HOST # <<>> /\ FTP_USER # <<>> /\ FTP_PUBLIC_URL # <<>>

\* all([FTP_HOST, FTP_USER, FTP_PASS, FTP_PUBLIC_URL])
Configured ==
    FTP_HOST # <<>> /\ FTP_USER # <<>> /\ FTP_PASS # <<>> /\ FTP_PUBLIC_URL # <<>>

\* variant: the remote name always ends in .png
unique_namePng(id, local_path) == <<id, ".png">>

\* ext and unique_name for the identifier drawn
unique_name(id, local_path) ==
    <<id>> \o (IF suffix(local_path) # <<>> THEN suffix(local_path) ELSE <<".png">>)

remote_dir == rstrip(FTP_REMOTE_PATH, "/")

public_url(name) == rstrip(FTP_PUBLIC_URL, "/") \o <<"/">> \o name

PathPayload(p) == [tag |-> "path", path |-> p]
FtpPayload(cmd, reply) == [tag |-> "ftp", cmd |-> cmd, reply |-> reply]
EnvPayload == [tag |-> "FTP"]

\* main: what resolve_image_url gives for a path typed on the command line,
\* the FTP session being taken as a whole (UploadSpec has its steps)
ResolveResults(p) ==
    CASE is_url(Tokens(p)) -> {[url |-> p, err |-> NoErr]}
      [] is_local_file(Tokens(p), fs) /\ ~Configured ->
            {[url |-> "none", err |-> Error("ConfigurationError", EnvPayload)]}
      [] is_local_file(Tokens(p), fs) /\ Configured ->
            {[url |-> Text(public_url(unique_name("3f2a9c0d1b7e", Tokens(p)))),
              err |-> NoErr],
             [url |-> "none",
              err |-> Error("UploadError", FtpPayload("session", "failed"))]}
      [] OTHER -> {[url |-> "none", err |-> Error("InvalidInput", PathPayload(p))]}

(***************************************************************************)
(* Decisions of the code, one operator each.                               *)
(***************************************************************************)
\* variant: the 402 check is missing
SubmitOutcomeNoBilling(code, jid) ==
    CASE code = 401 -> "AuthError"
      [] code # 200 -> "ApiError"
      [] jid = 0 -> "SubmissionError"
      [] OTHER -> "ok"

\* the status check of a submission response
SubmitOutcome(code, jid) ==
    CASE code = 401 -> "AuthError"
      [] code = 402 -> "BillingError"
      [] code # 200 -> "ApiError"
      [] jid = 0 -> "SubmissionError"
      [] OTHER -> "ok"

\* variant: the loop runs while elapsed <= max_wait
LoopCondInclusive(k, e) == e <= max_wait(k)

\* variant: the loop runs for two more intervals
LoopCondLate(k, e) == e <= max_wait(k) + poll_interval(k)

\* the while condition of the poll loop
LoopCond(k, e) == e < max_wait(k)

\* variant: only server errors end the polling
FetchOkLenient(code) == code < 500

\* the status check of a status-fetch response
FetchOk(code) == code = 200

\* variant: the "cancelled" branch is missing
StatusOutcomeNoCancelled(st) ==
    CASE st = "completed" -> "break"
      [] st = "failed" -> "JobFailure"
      [] OTHER -> "sleep"

\* variant: the "failed" branch is missing
StatusOutcomeNoFailed(st) ==
    CASE st = "completed" -> "break"
      [] st = "cancelled" -> "JobCancelled"
      [] OTHER -> "sleep"

\* the branch of the poll loop taken for a status
StatusOutcome(st) ==
    CASE st = "completed" -> "break"
      [] st = "failed" -> "JobFailure"
      [] st = "cancelled" -> "JobCancelled"
      [] OTHER -> "sleep"

\* what the error raised for a failed / cancelled job carries
FailurePayload(st, data) ==
    IF st = "failed" THEN data ELSE NoPayload

\* elapsed is not read again once the loop is left by break: the model
\* forgets its value there
AfterLoop(e) == 0

\* variant: the URL list is not checked
HasUrlsUnchecked(us) == TRUE

\* the check of the URL list after the loop
HasUrls(us) == us # <<>>

\* urls[0]
FirstUrl(us) == IF us # <<>> THEN us[1] ELSE "none"

\* variant: every answer short of a server error is taken for the image
DownloadOkLenient(code) == code < 500

\* the status check of the download response
DownloadOk(code) == code = 200

(***************************************************************************)
(* Frames.                                                                 *)
(***************************************************************************)
store == <<log, last, files>>
job == <<response, job_id, elapsed, fetch_code, job_data, urls, image_url,
         output_file, payload, img_response>>
call == <<args, API_KEY, kind, src, i, argv, kwargs>>
upload == <<environ, fs, path_arg, ftp, server, result>>
\* the download host, the clock and the call of slugify
outside == <<content_type, now, text_arg, max_length, slug>>

\* variant: the handler prints the message and exits with code 0
RaiseExitZero(k, p) ==
    /\ err' = Error(k, p)
    /\ exit_code' = 0
    /\ pc' = "exited"

\* an exception reaching main's handler (or sys.exit(1)): message, exit code 1
Raise(k, p) ==
    /\ err' = Error(k, p)
    /\ exit_code' = 1
    /\ pc' = "exited"

Running(p) == pc' = p /\ UNCHANGED <<err, exit_code>>

\* locals of an operation function at its entry
FreshJob ==
    /\ response' = NoResponse
    /\ job_id' = 0
    /\ elapsed' = 0
    /\ fetch_code' = 0
    /\ job_data' = NoJobData
    /\ urls' = <<>>
    /\ image_url' = "none"
    /\ output_file' = NoPath
    /\ img_response' = 0
    /\ payload' = NoPayloadSent
    /\ sent' = {}

Init ==
    /\ pc = "idle"
    /\ args = [mode |-> "none", target |-> "none", engine |-> "topaz", num |-> 1]
    /\ API_KEY = TRUE
    /\ kind = "generate"
    /\ src = "none"
    /\ i = 0
    /\ appended = 0
    /\ response = NoResponse
    /\ job_id = 0
    /\ elapsed = 0
    /\ fetch_code = 0
    /\ job_data = NoJobData
    /\ urls = <<>>
    /\ image_url = "none"
    /\ output_file = NoPath
    /\ img_response = 0
    /\ err = NoErr
    /\ exit_code = -1
    /\ log = <<>>
    /\ last = <<>>
    /\ files = {}
    /\ sent = {}
    /\ last_ok_url = "none"
    /\ argv = NoCommandLine
    /\ kwargs = NoKwargs
    /\ payload = NoPayloadSent
    /\ environ = ConfiguredEnv
    /\ fs = {Tokens(LocalFile)}
    /\ path_arg = <<>>
    /\ ftp = NoFtp
    /\ server = NoServer
    /\ result = <<>>
    /\ content_type = <<"image/", "png">>
    /\ now = Noon
    /\ text_arg = <<>>
    /\ max_length = DefaultMaxLength
    /\ slug = <<>>

(***************************************************************************)
(* main: an invocation in upscale mode (-u [last | URL] --engine E).       *)
(***************************************************************************)
Upscale(targets, lines) ==
    /\ pc \in {"idle", "exited"}
    /\ Len(log) < MaxLog
    /\ \E target \in targets, line \in lines, key \in BOOLEAN :
         /\ args' = [mode |-> "upscale", target |-> target,
                     engine |-> parse_args(line).engine, num |-> 1]
         /\ argv' = line
         /\ API_KEY' = key
         /\ i' = 0
         /\ appended' = 0
         /\ FreshJob
         /\ UNCHANGED <<store, last_ok_url, upload, outside>>
         /\ IF NoPrior(target, get_last_image_info)
               THEN /\ Raise("NoPriorResult", NoPayload)
                    /\ src' = "none"
                    /\ UNCHANGED <<kind, kwargs>>
               ELSE \E r \in (IF target = "last"
                                 THEN {[url |-> SourceUrl(target, get_last_image_info),
                                        err |-> NoErr]}
                                 ELSE ResolveResults(target)) :
                      /\ src' = r.url
                      /\ IF r.err # NoErr
                            THEN /\ Raise(r.err.kind, r.err.payload)
                                 /\ UNCHANGED <<kind, kwargs>>
                            ELSE /\ kind' = UpscaleCall(parse_args(line)).fn
                                 /\ kwargs' = UpscaleCall(parse_args(line)).kwargs
                                 /\ err' = NoErr
                                 /\ exit_code' = -1
                                 /\ pc' = "submit"

\* the command lines of the direct engine selection
EngineLines == {CommandLine(e, "absent", -1, NoOptions) : e \in {"topaz", "bloom"}}

StartUpscale == Upscale({"last", ArgUrl}, EngineLines)

(***************************************************************************)
(* main: an invocation in generate / edit mode (prompt [-e [last | URL]]   *)
(* [-n N]).                                                                *)
(***************************************************************************)
Generate(targets) ==
    /\ pc \in {"idle", "exited"}
    /\ \E target \in targets, n \in 1..MaxNum, key \in BOOLEAN :
         /\ Len(log) + n <= MaxLog
         /\ args' = [mode |-> IF target = "none" THEN "generate" ELSE "edit",
                     target |-> target, engine |-> "topaz", num |-> n]
         /\ API_KEY' = key
         /\ i' = 0
         /\ appended' = 0
         /\ kind' = "generate"
         /\ argv' = NoCommandLine
         /\ kwargs' = [GenerateKwargs EXCEPT !.aspect_ratio =
                            AspectRatio("absent", target, get_last_image_info)]
         /\ FreshJob
         /\ UNCHANGED <<store, last_ok_url, upload, outside>>
         /\ IF NoPrior(target, get_last_image_info)
               THEN /\ Raise("NoPriorResult", NoPayload)
                    /\ src' = "none"
               ELSE /\ src' = SourceUrl(target, get_last_image_info)
                    /\ err' = NoErr
                    /\ exit_code' = -1
                    /\ pc' = "submit"

StartGenerate == Generate({"none", "last", ArgUrl})

(***************************************************************************)
(* Operation entry and job submission.                                     *)
(***************************************************************************)
\* variant: the job is submitted whether or not the API key is set
SubmitWithoutKey ==
    /\ pc = "submit"
    /\ UNCHANGED <<call, appended, store, last_ok_url, elapsed, fetch_code, job_data, urls,
                   image_url, output_file, img_response, upload, outside>>
    /\ \E code \in SubmitCodes, jid \in JobIds :
         /\ sent' = sent \cup {"submit"}
         /\ payload' = Payload(kind, src, kwargs)
         /\ response' = [code |-> code, job_id |-> jid]
         /\ IF SubmitOutcome(code, jid) = "ok"
               THEN /\ job_id' = jid
                    /\ Running("poll")
               ELSE /\ job_id' = 0
                    /\ Raise(SubmitOutcome(code, jid), HttpPayload(code))

Submit ==
    /\ pc = "submit"
    /\ UNCHANGED <<call, appended, store, last_ok_url, elapsed, fetch_code, job_data, urls,
                   image_url, output_file, img_response, upload, outside>>
    /\ IF ~API_KEY
          THEN /\ Raise("ConfigurationError", NoPayload)
               /\ UNCHANGED <<response, job_id, sent, payload>>
          ELSE \E code \in SubmitCodes, jid \in JobIds :
                 /\ sent' = sent \cup {"submit"}
                 /\ payload' = Payload(kind, src, kwargs)
                 /\ response' = [code |-> code, job_id |-> jid]
                 /\ IF SubmitOutcome(code, jid) = "ok"
                       THEN /\ job_id' = jid
                            /\ Running("poll")
                       ELSE /\ job_id' = 0
                            /\ Raise(SubmitOutcome(code, jid), HttpPayload(code))

(***************************************************************************)
(* One iteration of the poll loop; on "completed" the loop is left and the *)
(* URL list is read and checked.                                           *)
(***************************************************************************)
Poll ==
    /\ pc = "poll"
    /\ LoopCond(kind, elapsed)
    /\ UNCHANGED <<call, appended, store, last_ok_url, response, job_id, output_file,
                   img_response, payload, upload, outside>>
    /\ sent' = sent \cup {"status"}
    /\ \E code \in PollCodes, data \in StatusResponses :
         /\ fetch_code' = code
         /\ IF ~FetchOk(code)
               THEN /\ Raise("ApiError", HttpPayload(code))
                    /\ UNCHANGED <<job_data, urls, image_url, elapsed>>
               ELSE /\ job_data' = data
                    /\ CASE StatusOutcome(data.status) = "break" ->
                              /\ urls' = data.urls
                              /\ elapsed' = AfterLoop(elapsed)
                              /\ IF HasUrls(data.urls)
                                    THEN /\ image_url' = FirstUrl(data.urls)
                                         /\ Running("download")
                                    ELSE /\ UNCHANGED image_url
                                         /\ Raise("NoUrls", data)
                         [] StatusOutcome(data.status) = "sleep" ->
                              /\ elapsed' = elapsed + poll_interval(kind)
                              /\ UNCHANGED <<urls, image_url>>
                              /\ Running("poll")
                         [] OTHER ->
                              /\ UNCHANGED <<urls, image_url, elapsed>>
                              /\ Raise(StatusOutcome(data.status),
                                       FailurePayload(data.status, data))

\* the else branch of the poll loop
Timeout ==
    /\ pc = "poll"
    /\ ~LoopCond(kind, elapsed)
    /\ Raise("JobTimeout", WaitPayload(kind))
    /\ UNCHANGED <<call, appended, store, last_ok_url, job, sent, upload, outside>>

(***************************************************************************)
(* Download of the first result URL.                                       *)
(***************************************************************************)
\* variant: the body of the response is written to the output file before
\* its status is looked at
DownloadWritingFirst ==
    /\ pc = "download"
    /\ UNCHANGED <<call, appended, log, last, last_ok_url, response, job_id, elapsed,
                   fetch_code, job_data, urls, image_url, payload, upload, outside>>
    /\ sent' = sent \cup {"download"}
    /\ output_file' = OutputPath(kind)
    /\ files' = files \cup {OutputPath(kind)}
    /\ \E code \in DownloadCodes :
         /\ img_response' = code
         /\ IF DownloadOk(code)
               THEN Running("save")
               ELSE Raise("DownloadError", HttpPayload(code))

Download ==
    /\ pc = "download"
    /\ UNCHANGED <<call, appended, store, last_ok_url, response, job_id, elapsed, fetch_code,
                   job_data, urls, image_url, output_file, payload, upload, outside>>
    /\ sent' = sent \cup {"download"}
    /\ \E code \in DownloadCodes :
         /\ img_response' = code
         /\ IF DownloadOk(code)
               THEN Running("save")
               ELSE Raise("DownloadError", HttpPayload(code))

(***************************************************************************)
(* Output path and file write.                                             *)
(***************************************************************************)
\* variant: the path is computed and the record steps follow, but the body of
\* the response is not written
SaveUnwritten ==
    /\ pc = "save"
    /\ UNCHANGED <<call, appended, log, last, last_ok_url, sent, response, job_id, elapsed,
                   fetch_code, job_data, urls, image_url, payload, img_response,
                   upload, outside>>
    /\ output_file' = OutputPath(kind)
    /\ UNCHANGED files
    /\ Running("log")

\* the path is computed and the body written; a write that raises (disk full,
\* permissions) leaves no file and ends the operation
Save ==
    /\ pc = "save"
    /\ UNCHANGED <<call, appended, log, last, last_ok_url, sent, response, job_id, elapsed,
                   fetch_code, job_data, urls, image_url, payload, img_response,
                   upload, outside>>
    /\ output_file' = OutputPath(kind)
    /\ \E written \in BOOLEAN :
         IF written
            THEN /\ files' = files \cup {OutputPath(kind)}
                 /\ Running("log")
            ELSE /\ UNCHANGED files
                 /\ Raise("IOError", NoPayload)

(***************************************************************************)
(* log_generation: one line appended to the log.                           *)
(***************************************************************************)
\* variant: the entry is not appended to the log
log_generationSkipped ==
    /\ pc = "log"
    /\ UNCHANGED <<call, appended, last, last_ok_url, files, job, sent, upload, outside, log>>
    /\ Running("latest")

log_generation ==
    /\ pc = "log"
    /\ UNCHANGED <<call, last, last_ok_url, files, job, sent, upload, outside>>
    /\ log' = Append(log, Dumps(LogEntry(kind, output_file, image_url, src)))
    /\ appended' = appended + 1
    /\ Running("latest")

(***************************************************************************)
(* The "last image" file is overwritten, the function returns, and main    *)
(* goes on with the next variation or with the closing steps.              *)
(***************************************************************************)
WriteLast ==
    /\ pc = "latest"
    /\ UNCHANGED <<args, API_KEY, kind, src, argv, kwargs, log, files, appended,
                   upload, outside>>
    /\ \E ok \in BOOLEAN :
         IF ok
            THEN /\ last' = <<DumpsIndent(LogEntry(kind, output_file, image_url, src))>>
                 /\ last_ok_url' = image_url
                 /\ i' = i + 1
                 /\ IF kind = "generate" /\ i + 1 < args.num
                       THEN /\ FreshJob
                            /\ Running("submit")
                       ELSE /\ UNCHANGED <<job, sent>>
                            /\ Running("finish")
            ELSE /\ UNCHANGED <<last, last_ok_url, i, job, sent>>
                 /\ Raise("IOError", NoPayload)

(***************************************************************************)
(* main after the operations: success message, the folder is opened.       *)
(***************************************************************************)
Finish ==
    /\ pc = "finish"
    /\ UNCHANGED <<call, appended, store, last_ok_url, job, sent, upload, outside>>
    /\ \E opened \in BOOLEAN :
         IF opened
            THEN /\ pc' = "exited"
                 /\ exit_code' = 0
                 /\ UNCHANGED err
            ELSE Raise("OpenError", NoPayload)

Next ==
    \/ StartUpscale
    \/ StartGenerate
    \/ Submit
    \/ Poll
    \/ Timeout
    \/ Download
    \/ Save
    \/ log_generation
    \/ WriteLast
    \/ Finish

Spec == Init /\ [][Next]_vars

(***************************************************************************)
(* The invocations whose source is a path of the local file system: an     *)
(* upscale or an edit of a file that exists, an upscale of one that does   *)
(* not.                                                                    *)
(***************************************************************************)
StartUpscaleLocal == Upscale({LocalFile, MissingFile}, EngineLines)

StartEditLocal == Generate({LocalFile})

LocalNext ==
    \/ StartUpscaleLocal
    \/ StartEditLocal
    \/ Submit
    \/ Poll
    \/ Timeout
    \/ Download
    \/ Save
    \/ log_generation
    \/ WriteLast
    \/ Finish

LocalSpec == Init /\ [][LocalNext]_vars

(***************************************************************************)
(* The upscale dispatch over the whole command line: every preset, the     *)
(* engine option absent or typed, engine-specific options, scale factors;  *)
(* each invocation runs up to its submission.                              *)
(***************************************************************************)
CommandLines ==
    {CommandLine(e, p, x, o) :
        e \in {"absent", "topaz", "bloom"}, p \in PresetNames \cup {"absent"},
        x \in {-1, 32}, o \in {NoOptions, AllOptions, BloomOptions}}

StartPreset == Upscale({ArgUrl}, CommandLines)

PresetNext ==
    \/ StartPreset
    \/ Submit

PresetSpec == Init /\ [][PresetNext]_vars

\* job_data["status"] of the last status response read ("none": none yet)
status == job_data.status

(***************************************************************************)
(* resolve_image_url and upload_to_ftp, one action per FTP command (one    *)
(* per path segment in the directory loop).  A command is answered "ok",   *)
(* "perm" (ftplib.error_perm) or "fail" (any other of ftplib.all_errors).  *)
(***************************************************************************)
program == <<call, job, store, last_ok_url, appended>>
Replies == {"ok", "perm", "fail"}

\* the answer of the server to CWD d
CwdReply(d) == IF d \in server.dirs THEN "ok" ELSE "perm"

\* the answer of the server to MKD d below the directory parent
MkdReply(d, parent) ==
    IF server.writable /\ d \notin server.dirs /\ parent \in server.dirs
       THEN "ok" ELSE "perm"

\* the path segments of the directory loop
parts == split(strip(remote_dir, "/"), "/")

\* variant: a refused STOR is passed over
StoreOutcomeIgnored(reply) == "stored"

\* the outer try of upload_to_ftp around STOR
StoreOutcome(reply) == IF reply = "ok" THEN "stored" ELSE "UploadError"

UploadInit ==
    /\ pc = "resolve"
    /\ args = [mode |-> "upscale", target |-> "none", engine |-> "topaz", num |-> 1]
    /\ API_KEY = TRUE
    /\ kind = "topaz"
    /\ src = "none"
    /\ i = 0
    /\ appended = 0
    /\ response = NoResponse
    /\ job_id = 0
    /\ elapsed = 0
    /\ fetch_code = 0
    /\ job_data = NoJobData
    /\ urls = <<>>
    /\ image_url = "none"
    /\ output_file = NoPath
    /\ img_response = 0
    /\ err = NoErr
    /\ exit_code = -1
    /\ log = <<>>
    /\ last = <<>>
    /\ files = {}
    /\ sent = {}
    /\ last_ok_url = "none"
    /\ argv = NoCommandLine
    /\ kwargs = NoKwargs
    /\ payload = NoPayloadSent
    /\ environ \in Environments
    /\ fs \in FileSystems
    /\ path_arg \in PathInputs
    /\ ftp = NoFtp
    /\ server \in Servers
    /\ result = <<>>
    /\ content_type = <<"image/", "png">>
    /\ now = Noon
    /\ text_arg = <<>>
    /\ max_length = DefaultMaxLength
    /\ slug = <<>>

resolve_image_url ==
    /\ pc = "resolve"
    /\ UNCHANGED <<program, outside, environ, fs, path_arg, server, sent>>
    /\ CASE is_url(path_arg) ->
              /\ result' = path_arg
              /\ Running("resolved")
              /\ UNCHANGED ftp
         [] is_local_file(path_arg, fs) /\ ~Configured ->
              /\ Raise("ConfigurationError", EnvPayload)
              /\ UNCHANGED <<ftp, result>>
         [] is_local_file(path_arg, fs) /\ Configured /\ path_arg \notin fs ->
              /\ Raise("FileNotFound", PathPayload(path_arg))
              /\ UNCHANGED <<ftp, result>>
         [] is_local_file(path_arg, fs) /\ Configured /\ path_arg \in fs ->
              /\ \E id \in HexIds :
                   ftp' = [NoFtp EXCEPT !.unique_name = unique_name(id, path_arg)]
              /\ Running("connect")
              /\ UNCHANGED result
         [] OTHER ->
              /\ Raise("InvalidInput", PathPayload(path_arg))
              /\ UNCHANGED <<ftp, result>>

Connect ==
    /\ pc = "connect"
    /\ UNCHANGED <<program, outside, environ, fs, path_arg, server, result, ftp>>
    /\ sent' = sent \cup {"connect"}
    /\ \E r \in Replies :
         IF r = "ok"
            THEN Running("login")
            ELSE Raise("UploadError", FtpPayload("connect", r))

Login ==
    /\ pc = "login"
    /\ UNCHANGED <<program, outside, environ, fs, path_arg, server, result>>
    /\ sent' = sent \cup {"login"}
    /\ \E r \in Replies :
         IF r = "ok"
            THEN /\ ftp' = [ftp EXCEPT !.cwd = <<"/">>]
                 /\ Running(IF remote_dir # <<>> THEN "cwd" ELSE "store")
            ELSE /\ UNCHANGED ftp
                 /\ Raise("UploadError", FtpPayload("login", r))

\* ftp.cwd(remote_dir)
Cwd ==
    /\ pc = "cwd"
    /\ UNCHANGED <<program, outside, environ, fs, path_arg, server, result>>
    /\ sent' = sent \cup {"cwd"}
    /\ \E r \in {CwdReply(remote_dir), "fail"} :
         CASE r = "ok" ->
                /\ ftp' = [ftp EXCEPT !.cwd = remote_dir]
                /\ Running("store")
           [] r = "perm" ->
                /\ ftp' = [ftp EXCEPT !.k = 1, !.current = <<>>]
                /\ Running("mkdirs")
           [] OTHER ->
                /\ UNCHANGED ftp
                /\ Raise("UploadError", FtpPayload("cwd", r))

\* one iteration of the loop over the path segments: CWD, on a refusal MKD
\* and CWD again, a refusal of those being passed over
MakeDirs ==
    /\ pc = "mkdirs"
    /\ UNCHANGED <<program, outside, environ, fs, path_arg, result>>
    /\ LET cur == ftp.current \o <<"/">> \o parts[ftp.k]
           parent == IF ftp.current = <<>> THEN <<"/">> ELSE ftp.current
           next == IF ftp.k < Len(parts) THEN "mkdirs" ELSE "store"
       IN \E r1 \in {CwdReply(cur), "fail"} :
            CASE r1 = "ok" ->
                   /\ ftp' = [ftp EXCEPT !.cwd = cur, !.current = cur, !.k = @ + 1]
                   /\ sent' = sent \cup {"cwd"}
                   /\ UNCHANGED server
                   /\ Running(next)
              [] r1 = "fail" ->
                   /\ ftp' = [ftp EXCEPT !.current = cur]
                   /\ sent' = sent \cup {"cwd"}
                   /\ UNCHANGED server
                   /\ Raise("UploadError", FtpPayload("cwd", r1))
              [] OTHER ->
                   /\ sent' = sent \cup {"cwd", "mkd"}
                   /\ \E r2 \in {MkdReply(cur, parent), "fail"} :
                        CASE r2 = "ok" ->
                               /\ server' = [server EXCEPT !.dirs = @ \cup {cur}]
                               /\ \E r3 \in {"ok", "fail"} :
                                    IF r3 = "ok"
                                       THEN /\ ftp' = [ftp EXCEPT !.cwd = cur,
                                                          !.current = cur, !.k = @ + 1]
                                            /\ Running(next)
                                       ELSE /\ ftp' = [ftp EXCEPT !.current = cur]
                                            /\ Raise("UploadError", FtpPayload("cwd", r3))
                          [] r2 = "perm" ->
                               /\ ftp' = [ftp EXCEPT !.current = cur, !.k = @ + 1]
                               /\ UNCHANGED server
                               /\ Running(next)
                          [] OTHER ->
                               /\ ftp' = [ftp EXCEPT !.current = cur]
                               /\ UNCHANGED server
                               /\ Raise("UploadError", FtpPayload("mkd", r2))

\* the file is opened and sent with STOR unique_name
Store ==
    /\ pc = "store"
    /\ UNCHANGED <<program, outside, environ, fs, path_arg, result, ftp>>
    /\ sent' = sent \cup {"stor"}
    /\ \E r \in Replies :
         /\ server' = IF r = "ok"
                         THEN [server EXCEPT !.files =
                                  @ \cup {[dir |-> ftp.cwd, name |-> ftp.unique_name]}]
                         ELSE server
         /\ IF StoreOutcome(r) = "stored"
               THEN Running("quit")
               ELSE Raise("UploadError", FtpPayload("stor", r))

\* ftp.quit(), then the public URL is returned
Quit ==
    /\ pc = "quit"
    /\ UNCHANGED <<program, outside, environ, fs, path_arg, server, ftp>>
    /\ sent' = sent \cup {"quit"}
    /\ \E r \in Replies :
         IF r = "ok"
            THEN /\ result' = public_url(ftp.unique_name)
                 /\ Running("resolved")
            ELSE /\ UNCHANGED result
                 /\ Raise("UploadError", FtpPayload("quit", r))

UploadNext ==
    \/ resolve_image_url
    \/ Connect
    \/ Login
    \/ Cwd
    \/ MakeDirs
    \/ Store
    \/ Quit

UploadSpec == UploadInit /\ [][UploadNext]_vars

(***************************************************************************)
(* The three operation functions from the download of the artifact on,     *)
(* over every content type, URL suffix, output format, prompt, model and   *)
(* clock reading: the job has completed with one result URL.               *)
(***************************************************************************)
OutputUrls == {"https://r1", PngUrl, WebpUrl}
Clocks == {Noon, [date |-> "2026-01-16", time |-> "00-00-01"]}

\* a prompt without a letter or digit, and one longer than the slug may be
Symbols == <<"!", "?">>
LongPrompt == [k \in 1..60 |-> IF k % 5 = 0 THEN " " ELSE "a"]

OutputCalls ==
    {[fn |-> "generate", kwargs |-> GenerateArgs(t, m, r)] :
        t \in {RedBicycle, Symbols, LongPrompt}, m \in {"nano", "pro"},
        r \in {"1:1", "16:9"}}
    \cup {[fn |-> UpscaleCall(parse_args(l)).fn,
           kwargs |-> UpscaleCall(parse_args(l)).kwargs @@ [output_format |-> f]] :
             l \in EngineLines, f \in {"png", "jpg", "webp"}}

OutputInit ==
    /\ pc = "download"
    /\ API_KEY = TRUE
    /\ i = 0
    /\ appended = 0
    /\ response = [code |-> 200, job_id |-> 1]
    /\ job_id = 1
    /\ elapsed = 0
    /\ fetch_code = 200
    /\ image_url \in OutputUrls
    /\ output_file = NoPath
    /\ img_response = 0
    /\ err = NoErr
    /\ exit_code = -1
    /\ log = <<>>
    /\ last = <<>>
    /\ files = {}
    /\ sent = {"submit", "status"}
    /\ last_ok_url = "none"
    /\ argv = NoCommandLine
    /\ environ = ConfiguredEnv
    /\ fs = {Tokens(LocalFile)}
    /\ path_arg = <<>>
    /\ ftp = NoFtp
    /\ server = NoServer
    /\ result = <<>>
    /\ content_type \in ContentTypes
    /\ now \in Clocks
    /\ text_arg = <<>>
    /\ max_length = DefaultMaxLength
    /\ slug = <<>>
    /\ job_data = JobData("completed", <<image_url>>)
    /\ urls = <<image_url>>
    /\ \E c \in OutputCalls :
         /\ kind = c.fn
         /\ kwargs = c.kwargs
         /\ src = (IF c.fn = "generate" THEN "none" ELSE ArgUrl)
         /\ args = [mode |-> IF c.fn = "generate" THEN "generate" ELSE "upscale",
                    target |-> IF c.fn = "generate" THEN "none" ELSE ArgUrl,
                    engine |-> IF c.fn = "bloom" THEN "bloom" ELSE "topaz",
                    num |-> 1]
         /\ payload = Payload(c.fn, IF c.fn = "generate" THEN "none" ELSE ArgUrl,
                              c.kwargs)

OutputNext ==
    \/ Download
    \/ Save
    \/ log_generation
    \/ WriteLast
    \/ Finish

OutputSpec == OutputInit /\ [][OutputNext]_vars

(***************************************************************************)
(* upscale_image and upscale_bloom at their entry, over every scale factor *)
(* of the documented range and over source dimensions given or left to     *)
(* their default.                                                          *)
(***************************************************************************)
MaxScale == 32
SourceDims == {0, 512, 1024, 3000}      \* 0: the argument is not given (None)

Dimension(name, v) == IF v = 0 THEN <<>> ELSE name :> v

DimensionCalls ==
    {[fn |-> UpscaleCall(parse_args(l)).fn,
      kwargs |-> [UpscaleCall(parse_args(l)).kwargs EXCEPT !.scale_factor = x]
                 @@ Dimension("source_width", w) @@ Dimension("source_height", h)] :
        l \in EngineLines, x \in 1..MaxScale, w \in SourceDims, h \in SourceDims}

DimensionInit ==
    /\ pc = "submit"
    /\ API_KEY = TRUE
    /\ src = ArgUrl
    /\ i = 0
    /\ appended = 0
    /\ response = NoResponse
    /\ job_id = 0
    /\ elapsed = 0
    /\ fetch_code = 0
    /\ job_data = NoJobData
    /\ urls = <<>>
    /\ image_url = "none"
    /\ output_file = NoPath
    /\ img_response = 0
    /\ err = NoErr
    /\ exit_code = -1
    /\ log = <<>>
    /\ last = <<>>
    /\ files = {}
    /\ sent = {}
    /\ last_ok_url = "none"
    /\ argv = NoCommandLine
    /\ payload = NoPayloadSent
    /\ environ = ConfiguredEnv
    /\ fs = {Tokens(LocalFile)}
    /\ path_arg = <<>>
    /\ ftp = NoFtp
    /\ server = NoServer
    /\ result = <<>>
    /\ content_type = <<"image/", "png">>
    /\ now = Noon
    /\ text_arg = <<>>
    /\ max_length = DefaultMaxLength
    /\ slug = <<>>
    /\ \E c \in DimensionCalls :
         /\ kind = c.fn
         /\ kwargs = c.kwargs
         /\ args = [mode |-> "upscale", target |-> ArgUrl, engine |-> c.fn, num |-> 1]

DimensionNext == Submit

DimensionSpec == DimensionInit /\ [][DimensionNext]_vars

(***************************************************************************)
(* slugify as a function of its two arguments: every text over a small     *)
(* alphabet, every max_length from 0 up.                                   *)
(***************************************************************************)
Alphabet == {"a", "B", "1", " ", "-", "_", "!"}
Texts == UNION {[1..n -> Alphabet] : n \in 0..MaxText}

SlugInit ==
    /\ pc = "slugify"
    /\ args = [mode |-> "none", target |-> "none", engine |-> "topaz", num |-> 1]
    /\ API_KEY = TRUE
    /\ kind = "generate"
    /\ src = "none"
    /\ i = 0
    /\ appended = 0
    /\ response = NoResponse
    /\ job_id = 0
    /\ elapsed = 0
    /\ fetch_code = 0
    /\ job_data = NoJobData
    /\ urls = <<>>
    /\ image_url = "none"
    /\ output_file = NoPath
    /\ img_response = 0
    /\ err = NoErr
    /\ exit_code = -1
    /\ log = <<>>
    /\ last = <<>>
    /\ files = {}
    /\ sent = {}
    /\ last_ok_url = "none"
    /\ argv = NoCommandLine
    /\ kwargs = NoKwargs
    /\ payload = NoPayloadSent
    /\ environ = ConfiguredEnv
    /\ fs = {Tokens(LocalFile)}
    /\ path_arg = <<>>
    /\ ftp = NoFtp
    /\ server = NoServer
    /\ result = <<>>
    /\ content_type = <<"image/", "png">>
    /\ now = Noon
    /\ text_arg \in Texts
    /\ max_length \in 0..MaxCut
    /\ slug = <<>>

Slugify ==
    /\ pc = "slugify"
    /\ slug' = slugify(text_arg, max_length)
    /\ pc' = "returned"
    /\ UNCHANGED <<program, upload, sent, err, exit_code, content_type, now,
                   text_arg, max_length>>

SlugNext == Slugify

SlugSpec == SlugInit /\ [][SlugNext]_vars

(***************************************************************************)
(* Properties.                                                             *)
(***************************************************************************)
Is2xx(code) == code >= 200 /\ code < 300
Recorded == <<log, last, files>>

\* C1: for each operation, the accumulated waiting of the poll loop never
\* exceeds max_wait plus one poll interval, the loop is left as soon as a
\* terminal status is read, and the timeout error is raised exactly when the
\* budget is used up without a terminal status having been read: never after
\* a terminal status, and always when polling ended without one (unless a
\* status fetch itself failed).
PollingEndsWithinBudget ==
    /\ elapsed <= max_wait(kind) + poll_interval(kind)
    /\ status \in TerminalStatuses => pc # "poll" /\ err.kind # "JobTimeout"
    /\ err.kind = "JobTimeout" =>
          status \notin TerminalStatuses /\ elapsed >= max_wait(kind)
    /\ pc = "exited" /\ job_id # 0 /\ status \notin TerminalStatuses =>
          /\ err.kind \in {"JobTimeout", "ApiError"}
          /\ err.kind = "JobTimeout" <=> elapsed >= max_wait(kind)
          /\ err.kind = "ApiError" <=> fetch_code # 200

TimedOutBloom ==
    err.kind = "JobTimeout" /\ kind = "bloom" /\ elapsed = 300 /\ status = "processing"

\* C2 as stated: a failed or cancelled status ends the operation at once with
\* JobFailure / JobCancelled, each carrying the raw status payload, with no
\* download and no file written; on completed the job that is returned has
\* the result URLs of the response.
FailedCancelledCarryRawPayload ==
    /\ status = "failed" => err = Error("JobFailure", job_data)
    /\ status = "cancelled" => err = Error("JobCancelled", job_data)
    /\ status \in {"failed", "cancelled"} =>
          pc = "exited" /\ "download" \notin sent /\ output_file = NoPath
    /\ status = "completed" =>
          /\ urls = job_data.urls
          /\ err.kind # "NoUrls" => urls # <<>> /\ image_url = urls[1]

\* C2 amended: a failed or cancelled status ends the operation at once (no
\* further status fetch, no download, no file, no log or "last image" write)
\* with distinguishable errors; the JobFailure error carries the raw status
\* payload, the JobCancelled error carries none (a fixed message); on
\* completed the job that is returned has the result URLs of the response.
FailedCancelledFailAtOnce ==
    /\ [](/\ status = "failed" => err = Error("JobFailure", job_data)
          /\ status = "cancelled" => err = Error("JobCancelled", NoPayload)
          /\ status \in {"failed", "cancelled"} =>
                /\ pc = "exited" /\ exit_code = 1
                /\ "download" \notin sent /\ output_file = NoPath /\ urls = <<>>
          /\ status = "completed" =>
                /\ urls = job_data.urls
                /\ err.kind # "NoUrls" => urls # <<>> /\ image_url = urls[1])
    /\ [][(status \in {"failed", "cancelled"}) =>
             ~Poll /\ ~Download /\ (UNCHANGED Recorded)]_vars

CancelledOnLaterPoll ==
    status = "cancelled" /\ err.kind = "JobCancelled" /\ elapsed > 0

\* C3 as stated: the result URL list is non-empty iff the status is completed.
ResultUrlsIffCompleted ==
    urls # <<>> <=> status = "completed"

\* C3 amended: a non-empty result URL list implies the status completed, and
\* the operation downloads, saves or records only with status completed and a
\* non-empty URL list; a completed status response without URLs leaves the
\* status completed with an empty list, and the operation then fails with the
\* no-URLs error before any download or file write.
ResultUrlsOnlyWhenCompleted ==
    /\ urls # <<>> => status = "completed"
    /\ (\/ pc \in {"download", "save", "log", "latest", "finish"}
        \/ "download" \in sent
        \/ output_file # NoPath) =>
          status = "completed" /\ urls # <<>> /\ image_url = urls[1]
    /\ status = "completed" /\ urls = <<>> =>
          /\ pc = "exited" /\ err.kind = "NoUrls"
          /\ "download" \notin sent /\ output_file = NoPath

CompletedWithoutUrls ==
    status = "completed" /\ urls = <<>> /\ err.kind = "NoUrls" /\ exit_code = 1

\* C4 as stated: 401 -> AuthError, 402 -> BillingError, any other non-2xx ->
\* ApiError, 2xx without job id -> SubmissionError, 2xx with job id -> polling.
SubmissionClassifiedBy2xx ==
    response # NoResponse =>
       /\ response.code = 401 => err.kind = "AuthError"
       /\ response.code = 402 => err.kind = "BillingError"
       /\ ~Is2xx(response.code) /\ response.code \notin {401, 402} =>
             err.kind = "ApiError" /\ job_id = 0
       /\ Is2xx(response.code) /\ response.job_id = 0 => err.kind = "SubmissionError"
       /\ Is2xx(response.code) /\ response.job_id # 0 => job_id = response.job_id

\* C4 amended: 401 -> AuthError, 402 -> BillingError, any other status that
\* is not 200 (other 2xx codes included) -> ApiError, 200 without job id ->
\* SubmissionError, 200 with job id -> polling with that id; in every failing
\* case the submission is the only request sent and nothing is written.
SubmissionClassifiedBy200 ==
    response # NoResponse =>
       /\ response.code = 401 => err.kind = "AuthError"
       /\ response.code = 402 => err.kind = "BillingError"
       /\ response.code \notin {200, 401, 402} =>
             err = Error("ApiError", HttpPayload(response.code))
       /\ response.code = 200 /\ response.job_id = 0 => err.kind = "SubmissionError"
       /\ response.code = 200 /\ response.job_id # 0 =>
             /\ job_id = response.job_id
             /\ err.kind \notin {"AuthError", "BillingError", "SubmissionError"}
             /\ pc = "poll" => err = NoErr
       /\ ~(response.code = 200 /\ response.job_id # 0) =>
             /\ job_id = 0 /\ pc = "exited" /\ exit_code = 1
             /\ sent = {"submit"} /\ output_file = NoPath /\ job_data = NoJobData

Submission201Rejected ==
    response = [code |-> 201, job_id |-> 1] /\ err.kind = "ApiError" /\ pc = "exited"

\* C5 as stated: a non-2xx status-fetch response is fatal, every 2xx one is
\* processed as a status.
FetchFatalIffNot2xx ==
    fetch_code # 0 =>
       /\ ~Is2xx(fetch_code) => pc = "exited" /\ err.kind = "ApiError"
       /\ Is2xx(fetch_code) => err.kind # "ApiError" /\ status # "none"

\* C5 amended: a status-fetch response with any status code other than 200
\* (other 2xx codes included) is fatal: ApiError, no further status fetch for
\* that job, nothing downloaded or written; every 200 response is processed
\* as a status.
FetchFatalIffNot200 ==
    /\ [](fetch_code # 0 =>
            /\ fetch_code # 200 =>
                  /\ pc = "exited" /\ exit_code = 1
                  /\ err = Error("ApiError", HttpPayload(fetch_code))
                  /\ "download" \notin sent /\ output_file = NoPath
            /\ fetch_code = 200 => err.kind # "ApiError" /\ status # "none")
    /\ [][(fetch_code \notin {0, 200}) => ~Poll /\ (UNCHANGED Recorded)]_vars

Fetch204Rejected ==
    fetch_code = 204 /\ err.kind = "ApiError" /\ elapsed > 0 /\ status = "processing"

\* the status of the job of the current operation, in the terms of the
\* state machine Submitted -> Polling -> {Completed, Failed, Cancelled, TimedOut}
JobStatus ==
    CASE job_id = 0 -> "None"
      [] err.kind = "JobTimeout" -> "TimedOut"
      [] status = "completed" -> "Completed"
      [] status = "failed" -> "Failed"
      [] status = "cancelled" -> "Cancelled"
      [] "status" \in sent -> "Polling"
      [] OTHER -> "Submitted"

Rank(js) ==
    CASE js = "None" -> 0
      [] js = "Submitted" -> 1
      [] js = "Polling" -> 2
      [] OTHER -> 3

\* C6: the status of a job only moves forward through Submitted -> Polling
\* -> {Completed, Failed, Cancelled, TimedOut}; once a terminal outcome is
\* observed the job is never polled again and its outcome never changes.
JobStatusMovesForward ==
    [][job_id # 0 /\ job_id' = job_id =>
          /\ Rank(JobStatus') >= Rank(JobStatus)
          /\ Rank(JobStatus) = 3 => JobStatus' = JobStatus /\ ~Poll]_vars

FailedAfterPolling ==
    JobStatus = "Failed" /\ elapsed > 0 /\ pc = "exited"

\* C7 as stated: a status fetch is still made whenever the elapsed time is at
\* most max_wait, so a timeout is raised only with elapsed above max_wait.
FetchMadeUpToMaxWait ==
    /\ pc = "poll" /\ elapsed <= max_wait(kind) => ENABLED Poll
    /\ err.kind = "JobTimeout" => elapsed > max_wait(kind)

\* C7 amended: consecutive status fetches are separated by a wait of 2 s
\* (generate, Topaz) or 5 s (Bloom); a status fetch is made only while the
\* elapsed time is below max_wait (120 s generate and Topaz, 300 s Bloom), and
\* the timeout is raised when the elapsed time has reached max_wait.
FetchOnlyBelowMaxWait ==
    /\ [][Poll =>
            /\ elapsed < (IF kind = "bloom" THEN 300 ELSE 120)
            /\ pc' = "poll" =>
                  elapsed' = elapsed + (IF kind = "bloom" THEN 5 ELSE 2)]_vars
    /\ [][pc = "poll" /\ elapsed < (IF kind = "bloom" THEN 300 ELSE 120) => ~Timeout]_vars
    /\ [](err.kind = "JobTimeout" =>
            elapsed = (IF kind = "bloom" THEN 300 ELSE 120))

TimedOutGenerateAt120 ==
    err.kind = "JobTimeout" /\ kind = "generate" /\ elapsed = 120

\* C8: whenever no invocation is running (also after one that failed between
\* the log write and the "last image" write), the "last image" record has the
\* content of the last record of the log.
LastMatchesLogTail ==
    pc \in {"idle", "exited"} =>
       \/ log = <<>> /\ last = <<>>
       \/ /\ log # <<>> /\ last # <<>>
          /\ Loads(last[1]) = Loads(log[Len(log)])

NoPriorResultBeforeNetwork ==
    /\ [](/\ last = <<>> => get_last_image_info = <<>>
          /\ args.target = "last" /\ last = <<>> /\ pc # "idle" =>
                err.kind = "NoPriorResult"
          /\ err.kind = "NoPriorResult" =>
                /\ pc = "exited" /\ exit_code = 1 /\ args.target = "last"
                /\ sent = {} /\ job_id = 0 /\ output_file = NoPath
                /\ last = <<>>)
    /\ [][err'.kind = "NoPriorResult" => (UNCHANGED Recorded)]_vars

UpscaleLastWithoutPrior ==
    /\ err.kind = "NoPriorResult" /\ args.mode = "upscale" /\ args.target = "last"
    /\ last = <<>> /\ sent = {} /\ exit_code = 1

\* the image URL of the request body that was submitted ("none": none)
SubmittedImage ==
    CASE payload = NoPayloadSent -> "none"
      [] kind = "generate" ->
            IF "styleImages" \in DOMAIN payload
               THEN payload.styleImages[1].url ELSE "none"
      [] OTHER -> payload.image_url

\* C17: an edit or upscale whose source is an existing local file submits its
\* job with the public URL the resolver returned for it, never with the local
\* path; the submission comes before polling, polling before the download,
\* the download before the saved file and the provenance records.
LocalSourceResolvedFirst ==
    /\ args.target = LocalFile /\ payload # NoPayloadSent =>
          SubmittedImage = UploadedUrl
    /\ SubmittedImage # LocalFile
    /\ "status" \in sent => "submit" \in sent
    /\ "download" \in sent => "status" \in sent
    /\ output_file # NoPath => "download" \in sent

(***************************************************************************)
(* Properties of the upscale dispatch (PresetSpec).                        *)
(***************************************************************************)
TopazKeys == {"sharpen", "denoise", "fix_compression", "face_enhancement",
              "face_enhancement_creativity", "face_enhancement_strength"}
BloomKeys == {"creativity", "face_preservation", "color_preservation", "prompt"}
Dispatched == argv.preset # "absent" /\ pc \in {"submit", "poll"}

\* C11: with a preset and an engine typed on the command line the operation
\* runs on the typed engine, for every preset and both engines; the preset's
\* recommended engine is used only when no engine is typed.
ExplicitEngineWins ==
    Dispatched =>
       kind = IF argv.engine # "absent"
                 THEN argv.engine
                 ELSE UPSCALE_PRESETS[argv.preset].engine

\* C12: with a preset, the request goes to the engine chosen and its body
\* holds exactly the values of that engine's bundle of the preset, none of
\* the other engine's keys and none of the typed engine-specific options
\* (for Bloom: no prompt); preset portrait without an engine option submits a
\* Topaz job with face_enhancement true.
PresetBundleSubmitted ==
    argv.preset # "absent" /\ payload # NoPayloadSent =>
       /\ kind = PresetEngine(parse_args(argv))
       /\ kind = "topaz" =>
             /\ [f \in {"model", "sharpen", "denoise", "fix_compression",
                        "face_enhancement"} |-> payload[f]]
                   = UPSCALE_PRESETS[argv.preset].topaz
             /\ DOMAIN payload \cap BloomKeys = {}
       /\ kind = "bloom" =>
             /\ [f \in {"creativity", "face_preservation", "color_preservation"}
                    |-> payload[f]]
                   = UPSCALE_PRESETS[argv.preset].bloom
             /\ DOMAIN payload \cap (TopazKeys \cup {"prompt"}) = {}
       /\ argv.preset = "portrait" /\ argv.engine = "absent" =>
             /\ kind = "topaz"
             /\ payload.face_enhancement = TRUE
             /\ payload.model = "High Fidelity V2"

PortraitSubmittedToTopaz ==
    /\ argv.preset = "portrait" /\ argv.engine = "absent"
    /\ argv.options = BloomOptions
    /\ pc = "poll" /\ kind = "topaz" /\ payload.face_enhancement = TRUE

(***************************************************************************)
(* Properties of resolve_image_url and upload_to_ftp (UploadSpec).         *)
(***************************************************************************)
UrlInput == path_arg[1] \in {"http://", "https://"}
TargetDir == IF rstrip(FTP_REMOTE_PATH, "/") = <<>>
                THEN <<"/">> ELSE rstrip(FTP_REMOTE_PATH, "/")
Absent(name) == ~environ[name].set \/ environ[name].val = <<>>
InSession == pc \in {"connect", "login", "cwd", "mkdirs", "store", "quit"}

\* C13: the upload reaches the store step only with the working directory of
\* the session equal to the configured remote directory; when that directory
\* cannot be entered nothing is stored elsewhere and no URL is returned.
StoreOnlyInRemoteDir ==
    /\ pc \in {"store", "quit"} => ftp.cwd = TargetDir
    /\ \A f \in server.files : f.dir = TargetDir
    /\ result # <<>> /\ ~UrlInput =>
          [dir |-> TargetDir, name |-> ftp.unique_name] \in server.files

\* C14 as stated: the upload of an existing local file fails with the
\* configuration error before any network command whenever host, user,
\* password, remote base path or public base URL is absent.
ConfigErrorIfAnyFieldAbsent ==
    /\ ~UrlInput /\ path_arg \in fs /\ pc # "resolve" =>
          ((\E n \in {"FTP_HOST", "FTP_USER", "FTP_PASS", "FTP_REMOTE_PATH",
                      "FTP_PUBLIC_URL"} : Absent(n))
             => err.kind = "ConfigurationError" /\ sent = {})

\* C14 amended: the upload of an existing local file fails with the
\* configuration error, before any network command and with nothing stored,
\* exactly when host, user, password or public base URL is absent or empty;
\* the remote base path is not required: when absent it is "/" and the
\* upload goes on.
ConfigErrorIffRequiredFieldAbsent ==
    /\ ~UrlInput /\ path_arg \in fs /\ pc # "resolve" =>
          /\ (\E n \in {"FTP_HOST", "FTP_USER", "FTP_PASS", "FTP_PUBLIC_URL"} :
                 Absent(n))
               <=> err = Error("ConfigurationError", EnvPayload)
          /\ ~environ.FTP_REMOTE_PATH.set => FTP_REMOTE_PATH = <<"/">>
    /\ err.kind = "ConfigurationError" =>
          /\ pc = "exited" /\ exit_code = 1
          /\ sent = {} /\ server.files = {} /\ result = <<>>

ConfigErrorWithoutPassword ==
    /\ err.kind = "ConfigurationError" /\ sent = {} /\ pc = "exited"
    /\ ~environ.FTP_PASS.set /\ environ.FTP_HOST.set /\ environ.FTP_USER.set
    /\ environ.FTP_PUBLIC_URL.set /\ ~environ.FTP_REMOTE_PATH.set

\* C15: an http:// or https:// URL is returned unchanged, with no FTP command
\* sent, nothing stored and no error, whether or not a local file of that
\* name exists and whether or not the upload is configured.
UrlReturnedUnchanged ==
    UrlInput /\ pc # "resolve" =>
       /\ result = path_arg /\ pc = "resolved"
       /\ err = NoErr /\ exit_code = -1
       /\ sent = {} /\ server.files = {} /\ ftp = NoFtp

UrlOfExistingNameUnconfigured ==
    /\ path_arg = <<"http://", "h">> /\ path_arg \in fs
    /\ ~environ.FTP_HOST.set /\ ~environ.FTP_PUBLIC_URL.set
    /\ pc = "resolved" /\ result = <<"http://", "h">>

UrlIsBaseSlashName ==
    ~UrlInput /\ pc = "resolved" =>
       /\ result = FTP_PUBLIC_URL \o <<"/">> \o ftp.unique_name
       /\ \E f \in server.files : f.name = ftp.unique_name
       /\ ftp.unique_name[1] \in HexIds

\* C19 amended: a successful upload returns the public base URL without its
\* trailing slashes + "/" + the name stored on the server, that name being
\* the 12-digit identifier followed by the extension of the source file, or
\* by .png when it has none.
UrlIsStrippedBaseSlashName ==
    ~UrlInput /\ pc = "resolved" =>
       /\ \E base \in {<<"https://", "cdn">>} :
            /\ environ.FTP_PUBLIC_URL.val \in {base, base \o <<"/">>}
            /\ result = base \o <<"/">> \o ftp.unique_name
       /\ \E f \in server.files : f.name = ftp.unique_name
       /\ Len(ftp.unique_name) = 2 /\ ftp.unique_name[1] \in HexIds
       /\ ftp.unique_name[2] =
             IF path_arg[Len(path_arg)] \in {".jpg", ".png"}
                THEN path_arg[Len(path_arg)] ELSE ".png"

UploadedFromSlashBaseNoExtension ==
    /\ pc = "resolved" /\ path_arg = <<"scans", "/", "photo">>
    /\ environ.FTP_PUBLIC_URL.val = <<"https://", "cdn", "/">>
    /\ result = <<"https://", "cdn", "/", "a41c07e29bd5", ".png">>

\* C20: a public URL is returned only after STOR of the file completed; a
\* failing connect, login, change-directory (other than a refusal), MKD
\* (other than a refusal), STOR or quit ends the upload with UploadError
\* carrying the command and its failure, and no URL is returned.
UrlOnlyAfterStore ==
    /\ [](/\ ~UrlInput /\ result # <<>> =>
                /\ pc = "resolved" /\ err = NoErr
                /\ {"connect", "login", "stor", "quit"} \subseteq sent
                /\ \E f \in server.files : f.name = ftp.unique_name
          /\ err.kind = "UploadError" =>
                /\ result = <<>> /\ pc = "exited" /\ exit_code = 1
                /\ err.payload.tag = "ftp" /\ err.payload.reply \in {"perm", "fail"}
                /\ err.payload.cmd \in sent
                /\ err.payload.cmd \in {"cwd", "mkd"} => err.payload.reply = "fail"
          /\ pc = "exited" /\ sent # {} => err.kind = "UploadError")
    /\ [][InSession /\ pc' = "exited" =>
             /\ err' = Error("UploadError", err'.payload)
             /\ err'.payload.cmd \in
                   CASE pc = "connect" -> {"connect"}
                     [] pc = "login" -> {"login"}
                     [] pc = "cwd" -> {"cwd"}
                     [] pc = "mkdirs" -> {"cwd", "mkd"}
                     [] pc = "store" -> {"stor"}
                     [] pc = "quit" -> {"quit"}
             /\ result' = <<>>]_vars

QuitFailedAfterStore ==
    /\ err = Error("UploadError", FtpPayload("quit", "fail"))
    /\ server.files # {} /\ result = <<>> /\ pc = "exited"

\* the extension of a saved file
FileExt(file) == SubSeq(file.filename, Len(file.filename) - 1, Len(file.filename))

\* the extension when the content type decides first and the URL suffix
\* only without png or webp in it
ContentTypeFirst(ctype, url) ==
    IF contains(ctype, "png") THEN <<".", "png">>
    ELSE IF contains(ctype, "webp") THEN <<".", "webp">>
    ELSE IF endswith(url, ".png") THEN <<".", "png">>
    ELSE IF endswith(url, ".webp") THEN <<".", "webp">>
    ELSE <<".", "jpg">>

\* C21: the extension of the file a generation saves is the one the content
\* type names (png or webp); only when the content type names neither, the
\* one of the URL suffix (.png or .webp); without either, .jpg.
ExtFromContentTypeFirst ==
    (kind = "generate" /\ output_file # NoPath) =>
        FileExt(output_file) = ContentTypeFirst(content_type, image_url)

\* C25: when generate_image has returned, the file it saved lies in the
\* folder of the current date and is named {time}-{model}-{slug of the
\* prompt}{ext}, and the "last image" record matches it: its local path is
\* that file, its URL the first result URL of the job, its prompt, model and
\* aspect ratio those of the request.
GenerationNamedAndRecorded ==
    (kind = "generate" /\ pc = "finish") =>
        /\ output_file \in files
        /\ output_file.date_folder = now.date
        /\ output_file.filename =
              <<now.time, "-", kwargs.model, "-">>
              \o slugify(payload.prompt, DefaultMaxLength)
              \o FileExt(output_file)
        /\ FileExt(output_file)[1] = "."
        /\ last # <<>>
        /\ Loads(last[1]).local_path = output_file
        /\ Loads(last[1]).krea_url = job_data.urls[1]
        /\ Loads(last[1]).prompt = payload.prompt
        /\ Loads(last[1]).model = kwargs.model
        /\ Loads(last[1]).aspect_ratio = payload.aspectRatio

\* the prompt "A red bicycle" with the default model: a-red-bicycle
RedBicycleSaved ==
    /\ kind = "generate"
    /\ pc = "finish"
    /\ payload.prompt = RedBicycle
    /\ output_file.filename =
          <<"12-00-00", "-", "nano", "-", "a", "-", "r", "e", "d", "-",
            "b", "i", "c", "y", "c", "l", "e", ".", "png">>
    /\ Loads(last[1]).local_path = output_file

\* the cap of an engine and the source dimensions of the running call
Cap(k) == IF k = "topaz" THEN TopazMaxSide ELSE BloomMaxSide
SourceWidth == Param(kwargs, "source_width", SourceSide)
SourceHeight == Param(kwargs, "source_height", SourceSide)

Untruncated == slugify(text_arg, Len(text_arg))

\* C22: the value slugify returns holds only lowercase alphanumerics and
\* single hyphens, neither starts nor ends with a hyphen, is no longer than
\* max_length, and is the untruncated slug or a prefix of it that ends where
\* one of its hyphen-separated words ends; the fallback token, returned for
\* an empty result, is exempt from the length and prefix conditions.
SlugIsWholeWords ==
    pc = "returned" =>
        /\ \A k \in 1..Len(slug) : slug[k] \in LowerAlnum \cup {"-"}
        /\ \A k \in 1..(Len(slug) - 1) : ~(slug[k] = "-" /\ slug[k + 1] = "-")
        /\ slug[1] # "-"
        /\ slug[Len(slug)] # "-"
        /\ \/ slug = Fallback
           \/ /\ Len(slug) <= max_length
              /\ \/ slug = Untruncated
                 \/ /\ Len(slug) < Len(Untruncated)
                    /\ SubSeq(Untruncated, 1, Len(slug)) = slug
                    /\ Untruncated[Len(slug) + 1] = "-"

\* C23: slugify applied to the value it returned, with the same max_length,
\* returns that value again.
SlugIdempotent ==
    pc = "returned" => slugify(slug, max_length) = slug

\* the entry the running operation records
Entry == LogEntry(kind, output_file, image_url, src)

\* C26: the job of a further variation is entered only from the record step
\* of the variation before it, whose job was polled to "completed", whose
\* artifact was downloaded and saved and whose entry stands at the end of
\* the log and in the "last image" file; when a job is submitted no other
\* job is in flight.
VariationsInSequence ==
    /\ [](pc = "submit" => (job_id = 0 /\ sent = {}))
    /\ [][(pc' = "submit" /\ i' > 0) =>
            /\ pc = "latest"
            /\ i' = i + 1
            /\ status = "completed"
            /\ sent = {"submit", "status", "download"}
            /\ output_file \in files
            /\ log # <<>>
            /\ Loads(log[Len(log)]) = Entry
            /\ last' = <<DumpsIndent(Entry)>>]_vars

\* the second of two variations has been submitted
SecondVariationSubmitted ==
    /\ args.num = 2
    /\ i = 1
    /\ pc = "poll"
    /\ sent = {"submit"}
    /\ Len(log) = 1

\* the kinds of error with which a refused or failed request ends an operation
RequestErrors ==
    {"ApiError", "DownloadError", "AuthError", "BillingError", "SubmissionError"}

\* C27: the artifact is requested once per operation; a download response
\* that is not 2xx ends the operation with the download error, exit code 1,
\* no output file and the log, the "last image" file and the saved files as
\* they were; a request is sent only while no request of the invocation has
\* failed, and a status fetch is repeated only after a fetch that succeeded.
DownloadAttemptedOnce ==
    /\ [](err.kind \in RequestErrors => pc = "exited")
    /\ [][(sent' # sent /\ sent' # {}) => (err = NoErr /\ pc # "exited")]_vars
    /\ [][(pc = "poll" /\ pc' = "poll" /\ "status" \in sent') =>
            (FetchOk(fetch_code') /\ status' \notin TerminalStatuses)]_vars
    /\ [][(pc = "download" /\ pc' # "download") =>
            /\ "download" \notin sent
            /\ "download" \in sent'
            /\ (~Is2xx(img_response') =>
                  /\ pc' = "exited"
                  /\ err' = Error("DownloadError", HttpPayload(img_response'))
                  /\ exit_code' = 1
                  /\ output_file' = NoPath
                  /\ UNCHANGED <<log, last, files>>)]_vars

\* a download answered 404 after an earlier operation was recorded
Download404AfterRecord ==
    /\ pc = "exited"
    /\ img_response = 404
    /\ err.kind = "DownloadError"
    /\ sent = {"submit", "status", "download"}
    /\ Len(log) = 1
    /\ output_file = NoPath

\* every operation the invocation asked for has returned
Succeeded == i = args.num

\* C28 as stated: the process exits with code 0 exactly when the requested
\* operation (every variation, or the upscale) succeeded, and with code 1 and
\* an error message on every failure.
ExitZeroIffSucceeded ==
    pc = "exited" =>
        /\ exit_code \in {0, 1}
        /\ exit_code = 0 <=> Succeeded
        /\ exit_code = 1 <=> err # NoErr

\* C28: the process exits with code 0 exactly when the requested operation
\* succeeded and the output folder was then opened, and with code 1 and an
\* error message on every failure, the failure to open the folder after a
\* successful operation included; no failure ends with exit code 0.
ExitZeroIffSucceededAndOpened ==
    pc = "exited" =>
        /\ exit_code \in {0, 1}
        /\ exit_code = 0 <=> (Succeeded /\ err = NoErr)
        /\ exit_code = 1 <=> err # NoErr
        /\ ~Succeeded => exit_code = 1
        /\ (Succeeded /\ exit_code = 1) => err.kind = "OpenError"

\* both variations were recorded, the folder could not be opened
ExitOneAfterTwoVariations ==
    /\ pc = "exited"
    /\ args.num = 2
    /\ i = 2
    /\ Len(log) = 2
    /\ exit_code = 1
    /\ err.kind = "OpenError"

\* the errors an operation raises before its record step
EarlyErrors ==
    {"ConfigurationError", "AuthError", "BillingError", "ApiError",
     "SubmissionError", "JobFailure", "JobCancelled", "JobTimeout", "NoUrls",
     "DownloadError"}

\* C29: from the entry of an operation to its download no step changes the
\* log, the "last image" file or the files under images/, and no output path
\* exists; an error of the kinds raised before the record step (no API key,
\* submission, status fetch, failed or cancelled job, timeout, no result
\* URL, download) is raised only in those steps, so such a failure leaves
\* the three as they were before the operation.
EarlyFailureLeavesNoTrace ==
    /\ [][(pc \in {"submit", "poll", "download"}) =>
            (UNCHANGED <<log, last, files>> /\ output_file' = NoPath)]_vars
    /\ [][(err' # err /\ err'.kind \in EarlyErrors) =>
            /\ pc \in {"submit", "poll", "download"}
            /\ pc' = "exited"
            /\ exit_code' = 1]_vars
    /\ [](err.kind \in EarlyErrors => (pc = "exited" /\ output_file = NoPath))

\* a job failed while the log held a record and the "last image" file existed
JobFailedAfterRecord ==
    /\ pc = "exited"
    /\ err.kind = "JobFailure"
    /\ Len(log) = 1
    /\ last = <<DumpsIndent(Loads(log[1]))>>
    /\ Cardinality(files) = 1
    /\ output_file = NoPath

\* the invocation generates or edits (variations are requested)
Variations == args.mode \in {"generate", "edit"}

\* the record of the variation that returned last, as the "last image" file
\* holds it
RecordOfVariation(k) == DumpsIndent(Loads(log[Len(log) - appended + k]))

\* C30: when variation k of N fails (k - 1 variations have returned), the
\* invocation has appended exactly k - 1 records, the "last image" file
\* holds the record of variation k - 1 (it is untouched when k = 1), no
\* further job is submitted and the exit code is 1; when all N have
\* returned, N records are appended and the file holds the record of
\* variation N.
FailedVariationLeavesEarlierOnes ==
    /\ [][(Variations /\ pc \notin {"idle", "exited"} /\ i' = 0) =>
            UNCHANGED last]_vars
    /\ [][(Variations /\ pc = "exited" /\ sent' # sent) => i' = 0]_vars
    /\ [](Variations /\ pc = "exited" /\ i < args.num =>
            /\ exit_code = 1
            /\ appended = i
            /\ i > 0 => last = <<RecordOfVariation(i)>>)
    /\ [](Variations /\ pc \in {"finish", "exited"} /\ i = args.num =>
            /\ appended = args.num
            /\ last = <<RecordOfVariation(args.num)>>)

\* the paths named by the records of the log and of the "last image" file
RecordedPaths ==
    {Loads(log[k]).local_path : k \in 1..Len(log)}
        \cup {Loads(last[k]).local_path : k \in 1..Len(last)}

\* C31: every record of the log and the "last image" record name a file that
\* has been written; within an operation the steps come in the order
\* download, file write, log append, "last image" overwrite: a file is
\* written only right after a download answered 200, a line is appended only
\* right after the file it names was written, and the "last image" file is
\* overwritten only right after that line was appended, with the same entry.
RecordsNameSavedFiles ==
    /\ [](RecordedPaths \subseteq files)
    /\ [][(pc' = "save") => (pc = "download" /\ DownloadOk(img_response'))]_vars
    /\ [][(pc' = "log") => (pc = "save" /\ output_file' \in files')]_vars
    /\ [][(pc' = "latest") => pc = "log"]_vars
    /\ [][(files' # files) =>
            /\ pc = "save"
            /\ pc' = "log"
            /\ "download" \in sent
            /\ DownloadOk(img_response)
            /\ files' = files \cup {output_file'}]_vars
    /\ [][(log' # log) =>
            /\ pc = "log"
            /\ pc' = "latest"
            /\ output_file \in files
            /\ log' = Append(log, Dumps(Entry))]_vars
    /\ [][(last' # last) =>
            /\ pc = "latest"
            /\ output_file \in files
            /\ log # <<>>
            /\ Loads(log[Len(log)]) = Entry
            /\ last' = <<DumpsIndent(Entry)>>]_vars

\* after one operation was recorded, the file write of the next one failed:
\* its path names no file and no record was added
WriteFailedAfterRecord ==
    /\ pc = "exited"
    /\ err.kind = "IOError"
    /\ output_file # NoPath
    /\ output_file \notin files
    /\ output_file \notin RecordedPaths
    /\ Len(log) = 1
    /\ appended = 0
    /\ Cardinality(files) = 1

\* the error an operation function raises when KREA_API_KEY is not set
NoApiKey == Error("ConfigurationError", NoPayload)

\* C32: an operation function entered without the API key does nothing but
\* raise the configuration error: the invocation ends with exit code 1,
\* having sent no request, built no payload and written nothing; a
\* submission, status fetch or download request is sent only when the key
\* is set, and the error is raised only when it is not.
NoRequestWithoutApiKey ==
    /\ [][(pc = "submit" /\ ~API_KEY) =>
            /\ pc' = "exited"
            /\ err' = NoApiKey
            /\ exit_code' = 1
            /\ sent = {}
            /\ UNCHANGED <<sent, payload, response, job_id, fetch_code,
                           img_response, log, last, files>>]_vars
    /\ [][(sent' # sent /\ sent' # {}) => API_KEY]_vars
    /\ [](err = NoApiKey =>
            /\ ~API_KEY
            /\ pc = "exited"
            /\ sent = {}
            /\ payload = NoPayloadSent
            /\ response = NoResponse
            /\ fetch_code = 0
            /\ img_response = 0)
    /\ [](pc \in {"poll", "download", "save", "log", "latest"} => API_KEY)

\* upscale_bloom was entered without the key after an earlier invocation was
\* recorded
BloomWithoutApiKey ==
    /\ pc = "exited"
    /\ err = NoApiKey
    /\ kind = "bloom"
    /\ ~API_KEY
    /\ sent = {}
    /\ exit_code = 1
    /\ Len(log) = 1
====
